---- MODULE Spec2Model ----
(***************************************************************************)
(* Model of the asynchronous job client (api-client, preload), the         *)
(* checksum downloader (downloadToFile), the model download scripts        *)
(* (downloadModel / downloadMany) and the update checker                   *)
(* (compareVersions, checkModelUpdates) of the PLAYE desktop application.  *)
(*                                                                         *)
(* These specifications share this module:                                 *)
(*   SpecPoll     - one call of pollJobUntilFinal against a backend that   *)
(*                  answers every status request with an arbitrary         *)
(*                  snapshot;                                              *)
(*   SpecDownload - one call of downloadToFile, event by event;            *)
(*   SpecDownloadLive - SpecDownload with every due event arriving;        *)
(*   SpecQueue    - overlapping calls of downloadModel / downloadMany in   *)
(*                  one event loop, sharing the registry file;             *)
(*   SpecClient   - ping, submitJob, cancelJob and pollJobUntilFinal of    *)
(*                  one api client, or one call of preload's               *)
(*                  submitAndPoll, against a backend job;                  *)
(*   SpecVersions - compareVersions on pairs of version strings;           *)
(*   SpecCheck    - one call of checkModelUpdates;                         *)
(*   SpecUpdate   - one call of updateModels and the checkModelUpdates     *)
(*                  that follows it.                                       *)
(* A specification leaves the variables of the others untouched.           *)
(***************************************************************************)
EXTENDS Integers, Sequences, FiniteSets, TLC

VARIABLES
    \* ---- pollJobUntilFinal (api-client) ----
    maxAttempts,      \* option maxAttempts of the call
    intervalMs,       \* option intervalMs of the call
    hasOnProgress,    \* whether the caller passed onProgress
    pollPc,           \* "call" | "delay" | "fetch" | "done"
    attempts,         \* local variable attempts
    nextIntervalMs,   \* local variable nextIntervalMs
    pollResult,       \* the value the call settled with
    statusFetches,    \* number of client.getJobStatus calls made
    progressCalls,    \* number of onProgress calls made
    lastSnapshot,     \* history: the payload of the latest status response
    terminalSeen,     \* history: number of terminal payloads received
    waits,            \* history: the delays waited so far, in order
    hints,            \* history: poll_after_ms of each payload received
    statusErrors,     \* history: number of non-success status responses
    \* ---- downloadToFile (model-utils) ----
    expectedSha256,   \* argument expectedSha256 (NoSha when not supplied)
    onProgressGiven,  \* whether the caller passed onProgress
    body,             \* which content the server serves
    payload,          \* lengths of the chunks the server has to send
    contentLength,    \* the content-length header as parsed (0: missing)
    dlPc,             \* "idle" | "call" | "request" | "response" | "failed"
    resState,         \* response stream: none|flowing|ended|errored|closed|paused
    fileState,        \* write stream: none|open|ending|finished|closed|errored
    received,         \* number of chunks delivered by 'data' events
    downloaded,       \* local variable downloaded
    lastPercent,      \* local variable lastPercent
    settled,          \* the promise: pending | resolved | rejected
    dlResult,         \* what the promise settled with
    destFile,         \* file at destPath
    tmpFile,          \* file at tmpPath
    uncaught,         \* an exception escaped a callback
    percents,         \* history: the values passed to onProgress, in order
    percentsAtSettle, \* history: Len(percents) when the promise settled
    destBefore,       \* history: the file at destPath when the call began
    renameFails,      \* whether destPath refuses the rename (in use, a directory)
    dlUrl,            \* the URL requestStream is requesting, "none" outside it
    \* ---- downloadModel / downloadMany (download-models) ----
    manifest,         \* models-data/manifest.json: key -> entry
    server,           \* how the server answers a download of each key
    registry,         \* models.json: key -> registry entry
    destFiles,        \* the file at destPath of each key
    tmpFiles,         \* the file at tmpPath of each key
    calls,            \* the calls of downloadModel / downloadMany made
    writes,           \* history: the entries written by downloadModel
    \* ---- createApiClient (api-client) and the backend's job ----
    token,            \* option token of createApiClient
    requests,         \* history: the requests passed to fetch
    job,              \* backend: state of the job task-1
    pingPc,           \* ping(): idle | sent | resolved | rejected
    submitPc,         \* submitJob(): idle | sent | resolved | rejected
    submitResult,     \* result.task_id of the document submitJob returned
    cancelPc,         \* cancelJob(): idle | sent | resolved | rejected
    cancelResult,     \* result of the document cancelJob returned
    cancelAt,         \* history: pollPc when cancelJob was called
    \* ---- submitAndPoll (preload) ----
    facade,           \* which client the renderer uses in this run
    sapPc,            \* idle | submit | wait | status | resolved | rejected
    sapI,             \* loop variable i
    sapResult,        \* what the call settled with
    \* ---- compareVersions (check-updates) ----
    verA, verB,       \* arguments a and b, as texts
    partsA, partsB,   \* history: the integers the texts were written from
    cmpPc,            \* idle | call | done
    cmpAB, cmpBA,     \* compareVersions(a, b) and compareVersions(b, a)
    \* ---- checkModelUpdates (check-updates) ----
    localManifest,    \* models of models-data/manifest.json
    registryFile,     \* the file models.json
    remoteUrl,        \* whether a remote manifest URL is configured
    remoteServer,     \* how the remote URL answers, hop by hop
    checkPc,          \* idle | call | fetching | resolved | rejected | uncaught | pending
    checkRegistry,    \* local variable registry
    checkResult,      \* the updates of the result returned
    checkError,       \* what the call rejected with
    hops,             \* number of redirects followed, counted up to MaxHops
    fetchUrl,         \* the URL fetchJson is requesting
    usedManifest,     \* history: which manifest the loop evaluated
    \* updateModels, and a checkModelUpdates that follows it
    updPc,            \* idle | check | download | resolved | rejected | rechecked
    updKeys,          \* local variable keys
    updated,          \* the keys downloadMany has pushed
    recheck           \* the result of the checkModelUpdates that follows

pollVars == <<maxAttempts, intervalMs, hasOnProgress, pollPc, attempts,
              nextIntervalMs, pollResult, statusFetches, progressCalls,
              lastSnapshot, terminalSeen, waits, hints, statusErrors>>

dlVars == <<expectedSha256, onProgressGiven, body, payload, contentLength,
            dlPc, resState, fileState, received, downloaded, lastPercent,
            settled, dlResult, destFile, tmpFile, uncaught, percents,
            percentsAtSettle, destBefore, renameFails, dlUrl>>

queueVars == <<manifest, server, registry, destFiles, tmpFiles, calls, writes>>

clientVars == <<token, requests, job, pingPc, submitPc, submitResult,
                cancelPc, cancelResult, cancelAt>>

preloadVars == <<facade, sapPc, sapI, sapResult>>

versionVars == <<verA, verB, partsA, partsB, cmpPc, cmpAB, cmpBA>>

checkVars == <<localManifest, registryFile, remoteUrl, remoteServer, checkPc,
               checkRegistry, checkResult, checkError, hops, fetchUrl, usedManifest>>

updateVars == <<updPc, updKeys, updated, recheck>>

vars == <<pollVars, dlVars, queueVars, clientVars, preloadVars, versionVars,
          checkVars, updateVars>>

\* what the steps of one subsystem leave alone
exceptPoll == <<dlVars, queueVars, clientVars, preloadVars, versionVars, checkVars,
                updateVars>>
exceptDownload == <<pollVars, queueVars, clientVars, preloadVars, versionVars,
                    checkVars, updateVars>>
exceptQueue == <<pollVars, dlVars, clientVars, preloadVars, versionVars, checkVars,
                 updateVars>>
exceptClient == <<dlVars, queueVars, versionVars, checkVars, updateVars>>
exceptVersions == <<pollVars, dlVars, queueVars, clientVars, preloadVars, checkVars,
                    updateVars>>
exceptCheck == <<pollVars, dlVars, queueVars, clientVars, preloadVars, versionVars,
                 updateVars>>
exceptUpdate == <<pollVars, dlVars, queueVars, clientVars, preloadVars, versionVars>>

----------------------------------------------------------------------------
(* Bounds of the model *)

\* largest maxAttempts option tried
MaxAttemptsBound == 3

\* largest number of components of a version string
MaxComponents == 3

\* largest number of redirects a remote manifest URL answers with
MaxHops == 1

\* largest number of chunks in a response body
MaxChunks == 3

\* number of calls of downloadModel / downloadMany that may overlap
MaxCalls == 2

----------------------------------------------------------------------------
(* JSON values of a status payload.  A field that is missing from the     *)
(* payload reads as JsUndefined.                                          *)

JsUndefined == [t |-> "undefined", v |-> 0]
JsNull      == [t |-> "null", v |-> 0]
JsNum(n)    == [t |-> "num", v |-> n]

\* String.prototype.toLowerCase on the status strings a backend sends
ToLowerCase(s) ==
    CASE s = "DONE"    -> "done"
      [] s = "FAILED"  -> "failed"
      [] OTHER         -> s

\* the status strings the backend may send; "" stands for a missing or
\* empty status field (both are falsy)
StatusValues == {"", "running", "canceled", "done", "DONE", "success",
                 "failed", "failure", "error"}

\* is_final: missing, false or true
IsFinalValues == {"undefined", "false", "true"}

\* error: missing, null, or a message
ErrorValues == {"undefined", "null", "boom"}

\* poll_after_ms: missing, or an integer
PollAfterValues == {JsUndefined, JsNum(-1), JsNum(0), JsNum(5)}

Snapshots == [status : StatusValues, is_final : IsFinalValues,
              error : ErrorValues, poll_after_ms : PollAfterValues]

\* JavaScript truthiness of the error field
Truthy(e) == e \notin {"undefined", "null", ""}

FINAL_SUCCESS_STATES == {"success", "done"}
FINAL_FAILURE_STATES == {"failure", "failed", "error"}

\* String(backend.status || "pending").toLowerCase()
NormalizedStatus(backend) ==
    ToLowerCase(IF backend.status = "" THEN "pending" ELSE backend.status)

\* IsFinal reading a field the backend does not send
IsFinalMisspelt(backend) == FALSE

\* Boolean(backend.is_final)
IsFinal(backend) == backend.is_final = "true"

\* Number.parseInt(x, 10) of a JSON value: NaN unless x is a number
ParseInt10(x) ==
    IF x.t = "num" THEN [nan |-> FALSE, v |-> x.v] ELSE [nan |-> TRUE, v |-> 0]

\* PollDecision with the status sets consulted before is_final
PollDecisionStatusFirst(backend) ==
    LET status  == NormalizedStatus(backend)
        isFinal == IsFinal(backend)
    IN  IF status \in FINAL_SUCCESS_STATES THEN "success"
        ELSE IF status \in FINAL_FAILURE_STATES THEN "failure"
        ELSE IF isFinal /\ ~Truthy(backend.error) THEN "success"
        ELSE IF isFinal /\ Truthy(backend.error) THEN "failure"
        ELSE "continue"

\* the return statements of the loop body, in the order of the code;
\* "continue" when none of them is taken
PollDecision(backend) ==
    LET status  == NormalizedStatus(backend)
        isFinal == IsFinal(backend)
    IN  IF isFinal /\ ~Truthy(backend.error) THEN "success"
        ELSE IF isFinal /\ Truthy(backend.error) THEN "failure"
        ELSE IF status \in FINAL_SUCCESS_STATES THEN "success"
        ELSE IF status \in FINAL_FAILURE_STATES THEN "failure"
        ELSE "continue"

\* AdoptPollAfter with a truthiness test, which drops the hint 0
AdoptPollAfterTruthy(current, backend) ==
    LET pollAfter == ParseInt10(backend.poll_after_ms)
    IN  IF ~pollAfter.nan /\ pollAfter.v > 0 THEN pollAfter.v ELSE current

\* the value of nextIntervalMs after a non-terminal iteration
AdoptPollAfter(current, backend) ==
    LET pollAfter == ParseInt10(backend.poll_after_ms)
    IN  IF ~pollAfter.nan /\ pollAfter.v >= 0 THEN pollAfter.v ELSE current

NoResult == [final |-> "none", payload |-> JsNull]

TimeoutResult == [final |-> "timeout", payload |-> JsNull]

\* LoopOrTimeout with an off-by-one loop condition
LoopOrTimeoutInclusive(att, max) ==
    IF att <= max THEN "delay" ELSE "done"

\* the loop condition `attempts < maxAttempts`, evaluated on entry and
\* after each non-terminal iteration: wait again, or leave the loop
LoopOrTimeout(att, max) ==
    IF att < max THEN "delay" ELSE "done"

\* OnProgressCalls with the callback skipped for a final payload
OnProgressCallsSkipFinal(made, has, backend) ==
    IF has /\ ~IsFinal(backend) THEN made + 1 ELSE made

\* `if (onProgress) onProgress(...)`: the number of calls made so far
OnProgressCalls(made, has, backend) ==
    IF has THEN made + 1 ELSE made

\* whether a payload ends the polling, as the job protocol defines it
\* (history only: the code decides with PollDecision)
IsTerminalSnapshot(backend) ==
    \/ backend.is_final = "true"
    \/ NormalizedStatus(backend) \in {"success", "done", "failure", "failed", "error"}

NoSnapshot == [status |-> "", is_final |-> "undefined", error |-> "undefined",
               poll_after_ms |-> JsUndefined]

PollInitial ==
    /\ maxAttempts \in 0..MaxAttemptsBound
    /\ intervalMs \in {1, 600}
    /\ hasOnProgress \in BOOLEAN
    /\ pollPc = "call"
    /\ attempts = 0
    /\ nextIntervalMs = 0
    /\ pollResult = NoResult
    /\ statusFetches = 0
    /\ progressCalls = 0
    /\ lastSnapshot = NoSnapshot
    /\ terminalSeen = 0
    /\ waits = <<>>
    /\ hints = <<>>
    /\ statusErrors = 0

\* entry of pollJobUntilFinal up to the first await
PollCall ==
    /\ pollPc = "call"
    /\ attempts' = 0
    /\ nextIntervalMs' = intervalMs
    /\ pollPc' = LoopOrTimeout(0, maxAttempts)
    /\ pollResult' = IF LoopOrTimeout(0, maxAttempts) = "done"
                        THEN TimeoutResult ELSE pollResult
    /\ UNCHANGED <<maxAttempts, intervalMs, hasOnProgress, statusFetches,
                   progressCalls, lastSnapshot, terminalSeen, waits, hints,
                   statusErrors>>

\* await delay(nextIntervalMs): the timer fires
PollDelay ==
    /\ pollPc = "delay"
    /\ waits' = Append(waits, nextIntervalMs)
    /\ pollPc' = "fetch"
    /\ UNCHANGED <<maxAttempts, intervalMs, hasOnProgress, attempts,
                   nextIntervalMs, pollResult, statusFetches, progressCalls,
                   lastSnapshot, terminalSeen, hints, statusErrors>>

\* ParseResponse with the test of response.ok left out
ParseResponseIgnoresOk(ok) == "return"

\* parseResponse: throws unless response.ok
ParseResponse(ok) == IF ~ok THEN "throw" ELSE "return"

\* the loop body after `await client.getJobStatus(taskId)` returned a
\* document whose result is `backend`, and the loop condition after it
PollLoopBody(backend) ==
    /\ lastSnapshot' = backend
    /\ hints' = Append(hints, backend.poll_after_ms)
    /\ terminalSeen' = terminalSeen + (IF IsTerminalSnapshot(backend) THEN 1 ELSE 0)
    /\ progressCalls' = OnProgressCalls(progressCalls, hasOnProgress, backend)
    /\ LET d == PollDecision(backend)
       IN  IF d # "continue"
              THEN /\ pollResult' = [final |-> d, payload |-> backend]
                   /\ pollPc' = "done"
                   /\ UNCHANGED <<attempts, nextIntervalMs>>
              ELSE /\ nextIntervalMs' = AdoptPollAfter(nextIntervalMs, backend)
                   /\ attempts' = attempts + 1
                   /\ pollPc' = LoopOrTimeout(attempts + 1, maxAttempts)
                   /\ pollResult' = IF LoopOrTimeout(attempts + 1, maxAttempts) = "done"
                                       THEN TimeoutResult ELSE pollResult
    /\ UNCHANGED <<maxAttempts, intervalMs, hasOnProgress, waits>>

\* getJobStatus answers with a success HTTP status and payload `backend`
PollStatus(backend) ==
    /\ pollPc = "fetch"
    /\ ParseResponse(TRUE) = "return"
    /\ statusFetches' = statusFetches + 1
    /\ PollLoopBody(backend)
    /\ UNCHANGED statusErrors

\* getJobStatus answers with a non-success HTTP status and an error
\* document (it has no `result`): parseResponse throws and the call
\* rejects
PollStatusError ==
    /\ pollPc = "fetch"
    /\ statusFetches' = statusFetches + 1
    /\ statusErrors' = statusErrors + 1
    /\ IF ParseResponse(FALSE) = "throw"
          THEN /\ pollResult' = [final |-> "rejected", payload |-> JsNull]
               /\ pollPc' = "done"
               /\ UNCHANGED <<maxAttempts, intervalMs, hasOnProgress, attempts,
                              nextIntervalMs, progressCalls, lastSnapshot,
                              terminalSeen, waits, hints>>
          ELSE PollLoopBody(NoSnapshot)

----------------------------------------------------------------------------
(* downloadToFile                                                          *)

\* a file: its content is the first `len` bytes of `body`
NoFile == [body |-> "absent", len |-> 0]
OldFile == [body |-> "old", len |-> 1]
StaleFile == [body |-> "stale", len |-> 1]

\* the first n bytes of content b; no bytes are the same whatever b is
Content(b, n) == IF n = 0 THEN [body |-> "empty", len |-> 0] ELSE [body |-> b, len |-> n]

\* A string is a sequence of tokens: the hex text of a digest is one
\* token, and so are a blank and the text 'sha256:'.
Blank == [body |-> " ", len |-> 0]
Sha256Prefix == [body |-> "sha256:", len |-> 0]

\* hash.digest('hex') after the first n bytes of content b: the hex text
\* stands for exactly one content (no collisions)
Sha256(b, n) == <<Content(b, n)>>

\* null, where a digest string is expected
NoSha == <<>>

FiveMiB == 5 * 1024 * 1024

\* chunk lengths of a response that announces its length, and of one
\* that does not
SmallChunks == {1, 2}
LargeChunks == {1, FiveMiB \div 2, 100 * FiveMiB}

RECURSIVE SumSeq(_)
SumSeq(q) == IF q = <<>> THEN 0 ELSE Head(q) + SumSeq(Tail(q))

\* sequences over S of length at most n
SeqsUpTo(S, n) == UNION {[1..k -> S] : k \in 0..n}

\* const hasTotal = Number.isFinite(total) && total > 0
HasTotal(total) == total > 0

\* Math.floor((downloaded / total) * 100)
Percent(d, total) == (d * 100) \div total

\* ApproxPercent without the cap
ApproxPercentUncapped(d) == d \div FiveMiB

\* Math.min(99, Math.floor(downloaded / (5 * 1024 * 1024)))
ApproxPercent(d) ==
    LET a == d \div FiveMiB IN IF a < 99 THEN a ELSE 99

\* the value a 'data' event computes for onProgress
ProgressValue(d, total) ==
    IF HasTotal(total) THEN Percent(d, total) ELSE ApproxPercent(d)

\* ShaMismatch with the verification left out
ShaMismatchSkipped(expected, actual) == FALSE

\* expectedSha256 && actualSha256 !== expectedSha256
ShaMismatch(expected, actual) == expected # NoSha /\ actual # expected

\* RemoveTmp with the removal left out
RemoveTmpSkipped(f) == f

\* if (fs.existsSync(tmpPath)) fs.rmSync(tmpPath, { force: true })
RemoveTmp(f) == NoFile

\* file.close() as called from cleanup: close() ends a stream that is
\* still open, so that 'finish' follows
CloseFromCleanup(fstate) == IF fstate = "open" THEN "ending" ELSE fstate

\* file.end() as called by res.pipe(file) when the response ends
EndFromPipe(fstate) == IF fstate = "open" THEN "ending" ELSE fstate

\* reject(err) / resolve(v): a settled promise ignores later calls
Settle(how) == IF settled = "pending" THEN how ELSE settled

\* cleanup(err), when the write stream is in state fstate
Cleanup(fstate, err) ==
    /\ fileState' = CloseFromCleanup(fstate)
    /\ tmpFile' = RemoveTmp(tmpFile)
    /\ settled' = Settle("rejected")
    /\ dlResult' = IF settled = "pending" THEN [kind |-> err, file |-> NoFile, sha256 |-> NoSha, bytes |-> 0]
                                          ELSE dlResult
    /\ percentsAtSettle' = IF settled = "pending" THEN Len(percents) ELSE percentsAtSettle

NoDlResult == [kind |-> "pending", file |-> NoFile, sha256 |-> NoSha, bytes |-> 0]

DownloadIdle ==
    /\ expectedSha256 = NoSha
    /\ onProgressGiven = FALSE
    /\ body = "good"
    /\ payload = <<>>
    /\ contentLength = 0
    /\ dlPc = "idle"
    /\ resState = "none"
    /\ fileState = "none"
    /\ received = 0
    /\ downloaded = 0
    /\ lastPercent = -1
    /\ settled = "pending"
    /\ dlResult = NoDlResult
    /\ destFile = NoFile
    /\ tmpFile = NoFile
    /\ uncaught = FALSE
    /\ percents = <<>>
    /\ percentsAtSettle = -1
    /\ destBefore = NoFile
    /\ renameFails = FALSE
    /\ dlUrl = "none"

\* the arguments and the environment of one call
DownloadInitial ==
    /\ \E announced \in BOOLEAN :
          /\ payload \in SeqsUpTo(IF announced THEN SmallChunks ELSE LargeChunks, MaxChunks)
          /\ contentLength = IF announced THEN SumSeq(payload) ELSE 0
    /\ body \in {"good", "evil"}
    /\ expectedSha256 \in {NoSha, Sha256("good", SumSeq(payload))}
    /\ onProgressGiven \in BOOLEAN
    /\ destFile \in {NoFile, OldFile}
    /\ destBefore = destFile
    /\ renameFails \in BOOLEAN
    /\ tmpFile \in {NoFile, StaleFile}
    /\ dlPc = "call"
    /\ resState = "none"
    /\ fileState = "none"
    /\ received = 0
    /\ downloaded = 0
    /\ lastPercent = -1
    /\ settled = "pending"
    /\ dlResult = NoDlResult
    /\ uncaught = FALSE
    /\ percents = <<>>
    /\ percentsAtSettle = -1
    /\ dlUrl = "none"

dlInputs == <<expectedSha256, onProgressGiven, body, payload, contentLength,
              destBefore, renameFails>>

\* the URL the location header of a redirect names
Location(url) == IF url = "remote" THEN "moved" ELSE "remote"

\* entry of downloadToFile up to `await requestStream(url)`
DlCall ==
    /\ dlPc = "call"
    /\ dlUrl' = "remote"
    /\ tmpFile' = RemoveTmp(tmpFile)
    /\ dlPc' = "request"
    /\ UNCHANGED <<dlInputs, resState, fileState, received, downloaded,
                   lastPercent, settled, dlResult, destFile, uncaught,
                   percents, percentsAtSettle>>

\* requestStream rejects (request error, or a status other than 200):
\* the await throws and the call rejects before any stream exists
DlRequestFails ==
    /\ dlPc = "request"
    /\ dlUrl' = "none"
    /\ dlPc' = "failed"
    /\ settled' = Settle("rejected")
    /\ dlResult' = [kind |-> "request", file |-> NoFile, sha256 |-> NoSha, bytes |-> 0]
    /\ percentsAtSettle' = Len(percents)
    /\ UNCHANGED <<dlInputs, resState, fileState, received, downloaded,
                   lastPercent, destFile, tmpFile, uncaught, percents>>

\* requestStream: a 3xx answer with a location is followed,
\* `resolve(requestStream(res.headers.location))`
DlRedirected ==
    /\ dlPc = "request"
    /\ dlUrl' = Location(dlUrl)
    /\ UNCHANGED <<dlInputs, dlPc, resState, fileState, received, downloaded,
                   lastPercent, settled, dlResult, destFile, tmpFile, uncaught,
                   percents, percentsAtSettle>>

\* requestStream resolves with a 200 response: the locals are set up,
\* the write stream on tmpPath is created and the handlers are attached
DlResponse ==
    /\ dlPc = "request"
    /\ dlUrl' = "none"
    /\ dlPc' = "response"
    /\ resState' = "flowing"
    /\ fileState' = "open"
    /\ tmpFile' = Content(body, 0)
    /\ downloaded' = 0
    /\ lastPercent' = -1
    /\ UNCHANGED <<dlInputs, received, settled, dlResult, destFile, uncaught,
                   percents, percentsAtSettle>>

\* res 'data': the handler of the call, and the write of the chunk that
\* res.pipe(file) makes
DlData ==
    /\ UNCHANGED dlUrl
    /\ resState = "flowing"
    /\ received < Len(payload)
    /\ LET chunk == payload[received + 1]
           d     == downloaded + chunk
           value == ProgressValue(d, contentLength)
       IN  /\ received' = received + 1
           /\ downloaded' = d
           /\ IF onProgressGiven /\ value # lastPercent
                 THEN /\ lastPercent' = value
                      /\ percents' = Append(percents, value)
                 ELSE UNCHANGED <<lastPercent, percents>>
           /\ tmpFile' = IF fileState = "open" /\ tmpFile # NoFile
                            THEN Content(body, tmpFile.len + chunk)
                            ELSE tmpFile
    /\ UNCHANGED <<dlInputs, dlPc, resState, fileState, settled, dlResult,
                   destFile, uncaught, percentsAtSettle>>

\* res 'end' after the whole body: res.pipe(file) ends the write stream
DlEnd ==
    /\ UNCHANGED dlUrl
    /\ resState = "flowing"
    /\ received = Len(payload)
    /\ resState' = "ended"
    /\ fileState' = EndFromPipe(fileState)
    /\ UNCHANGED <<dlInputs, dlPc, received, downloaded, lastPercent, settled,
                   dlResult, destFile, tmpFile, uncaught, percents,
                   percentsAtSettle>>

\* res 'error' while the body is in transit: cleanup(err)
DlResError ==
    /\ UNCHANGED dlUrl
    /\ resState = "flowing"
    /\ resState' = "errored"
    /\ Cleanup(fileState, "stream")
    /\ UNCHANGED <<dlInputs, dlPc, received, downloaded, lastPercent,
                   destFile, uncaught, percents>>

\* the response is closed without 'end' and without 'error': no handler
\* of the call runs
DlResClosed ==
    /\ UNCHANGED dlUrl
    /\ resState = "flowing"
    /\ resState' = "closed"
    /\ UNCHANGED <<dlInputs, dlPc, fileState, received, downloaded,
                   lastPercent, settled, dlResult, destFile, tmpFile,
                   uncaught, percents, percentsAtSettle>>

\* file 'error' (a failed write): the pipe is undone, which pauses the
\* response, and cleanup(err) runs
DlFileError ==
    /\ UNCHANGED dlUrl
    /\ fileState \in {"open", "ending"}
    /\ resState' = IF resState = "flowing" THEN "paused" ELSE resState
    /\ Cleanup("errored", "file")
    /\ UNCHANGED <<dlInputs, dlPc, received, downloaded, lastPercent,
                   destFile, uncaught, percents>>

\* file 'finish': the handler calls file.close(callback)
DlFinish ==
    /\ UNCHANGED dlUrl
    /\ fileState = "ending"
    /\ fileState' = "finished"
    /\ UNCHANGED <<dlInputs, dlPc, resState, received, downloaded,
                   lastPercent, settled, dlResult, destFile, tmpFile,
                   uncaught, percents, percentsAtSettle>>

\* the callback of file.close: verify, publish, report, resolve
DlClosed ==
    /\ UNCHANGED dlUrl
    /\ fileState = "finished"
    /\ LET actualSha256 == Sha256(body, downloaded)
       IN  IF ShaMismatch(expectedSha256, actualSha256)
              THEN /\ Cleanup("closed", "sha256")
                   /\ UNCHANGED <<destFile, uncaught, percents>>
           ELSE IF tmpFile = NoFile \/ renameFails
              THEN \* fs.renameSync throws: nothing after it runs
                   /\ uncaught' = TRUE
                   /\ fileState' = "closed"
                   /\ UNCHANGED <<destFile, tmpFile, percents, settled,
                                  dlResult, percentsAtSettle>>
           ELSE /\ fileState' = "closed"
                /\ destFile' = tmpFile
                /\ tmpFile' = NoFile
                /\ percents' = IF onProgressGiven THEN Append(percents, 100) ELSE percents
                /\ settled' = Settle("resolved")
                /\ dlResult' = IF settled = "pending"
                                  THEN [kind |-> "ok", file |-> tmpFile,
                                        sha256 |-> actualSha256, bytes |-> downloaded]
                                  ELSE dlResult
                /\ percentsAtSettle' = IF settled = "pending" THEN Len(percents')
                                                              ELSE percentsAtSettle
                /\ UNCHANGED uncaught
    /\ UNCHANGED <<dlInputs, dlPc, resState, received, downloaded, lastPercent>>

NextDownload ==
    \/ DlCall /\ UNCHANGED exceptDownload
    \/ DlRequestFails /\ UNCHANGED exceptDownload
    \/ DlRedirected /\ UNCHANGED exceptDownload
    \/ DlResponse /\ UNCHANGED exceptDownload
    \/ DlData /\ UNCHANGED exceptDownload
    \/ DlEnd /\ UNCHANGED exceptDownload
    \/ DlResError /\ UNCHANGED exceptDownload
    \/ DlResClosed /\ UNCHANGED exceptDownload
    \/ DlFileError /\ UNCHANGED exceptDownload
    \/ DlFinish /\ UNCHANGED exceptDownload
    \/ DlClosed /\ UNCHANGED exceptDownload

----------------------------------------------------------------------------
(* downloadModel and downloadMany                                          *)

\* the model keys a caller may pass
ModelKeys == {"m1", "m2"}

CallIds == 1..MaxCalls

\* text.trim()
RECURSIVE TrimLeft(_)
TrimLeft(text) ==
    IF text # <<>> /\ Head(text) = Blank THEN TrimLeft(Tail(text)) ELSE text

RECURSIVE TrimRight(_)
TrimRight(text) ==
    IF text # <<>> /\ text[Len(text)] = Blank
       THEN TrimRight(SubSeq(text, 1, Len(text) - 1)) ELSE text

Trim(text) == TrimRight(TrimLeft(text))

\* NormalizeSha256 taking a prefixed checksum for no checksum
NormalizeSha256DropsPrefixed(checksum) ==
    IF checksum = <<>> THEN NoSha
    ELSE LET text == Trim(checksum)
         IN  IF text = <<>> THEN NoSha
             ELSE IF Head(text) = Sha256Prefix THEN NoSha ELSE text

\* normalizeSha256; a missing checksum and the empty string are both <<>>
NormalizeSha256(checksum) ==
    IF checksum = <<>> THEN NoSha
    ELSE LET text == Trim(checksum)
         IN  IF text = <<>> THEN NoSha
             ELSE IF Head(text) = Sha256Prefix THEN Tail(text) ELSE text

\* the bytes of a model file as the queue sees them: one chunk
ModelBytes == 1

\* the checksum strings a manifest entry may hold: none, bare hex, or
\* hex with the algorithm prefix
ChecksumValues == {<<>>, Sha256("good", ModelBytes),
                   <<Sha256Prefix>> \o Sha256("good", ModelBytes)}

\* how the server treats a download: it serves the expected content, it
\* serves other content, it breaks the stream, or it answers an error
ServerValues == {"good", "evil", "reset", "http-error"}

NoEntry == [key |-> "", sha256 |-> NoSha, bytes |-> 0]

NoCall == [kind |-> "none", keys |-> <<>>, idx |-> 0, pc |-> "none",
           snapshot |-> [k \in ModelKeys |-> NoEntry], updated |-> <<>>,
           error |-> ""]

\* isPlaceholderUrl(entry.url)
IsPlaceholderUrl(entry) == entry.placeholder

\* the lists of distinct keys over S
DistinctSeqs(S) ==
    {q \in SeqsUpTo(S, Cardinality(S)) : \A i, j \in 1..Len(q) : i # j => q[i] # q[j]}

\* whether a call has a network transfer in progress
Transferring(call) == call.pc \in {"request", "streaming"}

\* downloadModel(rec.keys[i]) from its entry to `await requestStream`,
\* the registry file holding reg and the temp files being tmp
BeginModel(rec, i, reg, tmp) ==
    LET k == rec.keys[i] IN
    IF ~manifest[k].present
       THEN [call |-> [rec EXCEPT !.idx = i, !.pc = "rejected", !.error = "unknown-model"],
             tmp |-> tmp]
    ELSE IF IsPlaceholderUrl(manifest[k])
       THEN [call |-> [rec EXCEPT !.idx = i, !.pc = "rejected", !.error = "placeholder-url"],
             tmp |-> tmp]
    ELSE [call |-> [rec EXCEPT !.idx = i, !.pc = "request", !.snapshot = reg],
          tmp |-> [tmp EXCEPT ![k] = RemoveTmp(@)]]

\* AfterFailure going on with the next key
AfterFailureSkips(rec, err, reg, tmp) ==
    IF rec.kind = "many" /\ rec.idx < Len(rec.keys)
       THEN BeginModel(rec, rec.idx + 1, reg, tmp)
       ELSE [call |-> [rec EXCEPT !.pc = "rejected", !.error = err], tmp |-> tmp]

\* downloadModel has rejected: the await in downloadMany throws, and so
\* does downloadMany
AfterFailure(rec, err, reg, tmp) ==
    [call |-> [rec EXCEPT !.pc = "rejected", !.error = err], tmp |-> tmp]

\* AfterSuccess starting the next key only once the call is over
AfterSuccessNoNext(rec, reg, tmp) ==
    [call |-> [rec EXCEPT !.pc = "resolved",
                          !.updated = Append(@, rec.keys[rec.idx])],
     tmp |-> tmp]

\* downloadModel has resolved: downloadMany pushes the key and goes on
\* with the next one, or returns
AfterSuccess(rec, reg, tmp) ==
    LET done == [rec EXCEPT !.updated = Append(@, rec.keys[rec.idx])] IN
    IF rec.idx < Len(rec.keys)
       THEN BeginModel(done, rec.idx + 1, reg, tmp)
       ELSE [call |-> [done EXCEPT !.pc = "resolved"], tmp |-> tmp]

QueueIdle ==
    /\ manifest = [k \in ModelKeys |->
                     [present |-> TRUE, checksum |-> <<>>, placeholder |-> FALSE]]
    /\ server = [k \in ModelKeys |-> "good"]
    /\ registry = [k \in ModelKeys |-> NoEntry]
    /\ destFiles = [k \in ModelKeys |-> NoFile]
    /\ tmpFiles = [k \in ModelKeys |-> NoFile]
    /\ calls = [c \in CallIds |-> NoCall]
    /\ writes = {}

\* the manifest entries of a key: missing from the manifest, with a
\* placeholder url, or with a real url
MissingEntry == [present |-> FALSE, checksum |-> <<>>, placeholder |-> FALSE]
ManifestEntries ==
    {MissingEntry}
    \cup [present : {TRUE}, checksum : {<<Sha256Prefix>> \o Sha256("good", ModelBytes)},
          placeholder : {TRUE}]
    \cup [present : {TRUE}, checksum : ChecksumValues, placeholder : {FALSE}]

\* a manifest, a server and an empty models directory before any call
QueueInitial ==
    /\ \E e1 \in {e \in ManifestEntries : e.present /\ ~e.placeholder},
          e2 \in {e \in ManifestEntries : e.checksum # <<>> \/ ~e.present} :
          manifest = [k \in ModelKeys |-> IF k = "m1" THEN e1 ELSE e2]
    /\ \E s1 \in ServerValues, s2 \in {"good", "reset"} :
          server = [k \in ModelKeys |-> IF k = "m1" THEN s1 ELSE s2]
    /\ registry = [k \in ModelKeys |-> NoEntry]
    /\ destFiles = [k \in ModelKeys |-> NoFile]
    /\ tmpFiles = [k \in ModelKeys |-> NoFile]
    /\ calls = [c \in CallIds |-> NoCall]
    /\ writes = {}

queueInputs == <<manifest, server>>

\* the next unused call slot
IsNextCall(c) == calls[c].kind = "none" /\ \A d \in 1..(c - 1) : calls[d].kind # "none"

\* a caller calls downloadModel(key, onProgress, options)
CallDownloadModel(c, key) ==
    /\ IsNextCall(c)
    /\ LET rec == [NoCall EXCEPT !.kind = "model", !.keys = <<key>>]
           r   == BeginModel(rec, 1, registry, tmpFiles)
       IN  /\ calls' = [calls EXCEPT ![c] = r.call]
           /\ tmpFiles' = r.tmp
    /\ UNCHANGED <<queueInputs, registry, destFiles, writes>>

\* a caller calls downloadMany({ keys, modelsDir, onModelProgress })
CallDownloadMany(c, keys) ==
    /\ IsNextCall(c)
    /\ LET rec == [NoCall EXCEPT !.kind = "many", !.keys = keys]
           r   == IF keys = <<>>
                     THEN [call |-> [rec EXCEPT !.pc = "resolved"], tmp |-> tmpFiles]
                     ELSE BeginModel(rec, 1, registry, tmpFiles)
       IN  /\ calls' = [calls EXCEPT ![c] = r.call]
           /\ tmpFiles' = r.tmp
    /\ UNCHANGED <<queueInputs, registry, destFiles, writes>>

CurrentKey(c) == calls[c].keys[calls[c].idx]

\* requestStream rejects: downloadToFile and downloadModel reject
QRequestFails(c) ==
    /\ calls[c].pc = "request"
    /\ server[CurrentKey(c)] = "http-error"
    /\ LET r == AfterFailure(calls[c], "request", registry, tmpFiles)
       IN  /\ calls' = [calls EXCEPT ![c] = r.call]
           /\ tmpFiles' = r.tmp
    /\ UNCHANGED <<queueInputs, registry, destFiles, writes>>

\* requestStream resolves: the write stream on tmpPath is created
QResponse(c) ==
    /\ calls[c].pc = "request"
    /\ server[CurrentKey(c)] # "http-error"
    /\ calls' = [calls EXCEPT ![c].pc = "streaming"]
    /\ tmpFiles' = [tmpFiles EXCEPT ![CurrentKey(c)] = Content("part", ModelBytes)]
    /\ UNCHANGED <<queueInputs, registry, destFiles, writes>>

\* res 'error': cleanup removes the temp file and downloadModel rejects
QStreamError(c) ==
    /\ calls[c].pc = "streaming"
    /\ server[CurrentKey(c)] = "reset"
    /\ LET r == AfterFailure(calls[c], "stream",
                             registry, [tmpFiles EXCEPT ![CurrentKey(c)] = RemoveTmp(@)])
       IN  /\ calls' = [calls EXCEPT ![c] = r.call]
           /\ tmpFiles' = r.tmp
    /\ UNCHANGED <<queueInputs, registry, destFiles, writes>>

\* the whole body has been written and the file closed: downloadToFile
\* verifies and publishes, downloadModel writes the registry, and
\* downloadMany goes on, all before the next event is handled
QFinish(c) ==
    /\ calls[c].pc = "streaming"
    /\ server[CurrentKey(c)] \in {"good", "evil"}
    /\ LET k            == CurrentKey(c)
           actualSha256 == Sha256(server[k], ModelBytes)
           expected     == NormalizeSha256(manifest[k].checksum)
       IN  IF ShaMismatch(expected, actualSha256)
              THEN LET r == AfterFailure(calls[c], "sha256", registry,
                                         [tmpFiles EXCEPT ![k] = RemoveTmp(@)])
                   IN  /\ calls' = [calls EXCEPT ![c] = r.call]
                       /\ tmpFiles' = r.tmp
                       /\ UNCHANGED <<registry, destFiles, writes>>
           ELSE IF tmpFiles[k] = NoFile
              THEN \* fs.renameSync throws in the callback: the promise
                   \* of this call never settles
                   /\ calls' = [calls EXCEPT ![c].pc = "stuck"]
                   /\ UNCHANGED <<registry, destFiles, tmpFiles, writes>>
           ELSE LET entry == [key |-> k, sha256 |-> actualSha256, bytes |-> ModelBytes]
                    reg   == [calls[c].snapshot EXCEPT ![k] = entry]
                    r     == AfterSuccess(calls[c], reg, [tmpFiles EXCEPT ![k] = NoFile])
                IN  /\ destFiles' = [destFiles EXCEPT ![k] = Content(server[k], ModelBytes)]
                    /\ registry' = reg
                    /\ writes' = writes \cup {entry}
                    /\ calls' = [calls EXCEPT ![c] = r.call]
                    /\ tmpFiles' = r.tmp
    /\ UNCHANGED queueInputs

NextQueue ==
    \/ \E c \in CallIds, key \in ModelKeys :
          CallDownloadModel(c, key) /\ UNCHANGED exceptQueue
    \/ \E c \in CallIds, keys \in DistinctSeqs(ModelKeys) :
          CallDownloadMany(c, keys) /\ UNCHANGED exceptQueue
    \/ \E c \in CallIds : QRequestFails(c) /\ UNCHANGED exceptQueue
    \/ \E c \in CallIds : QResponse(c) /\ UNCHANGED exceptQueue
    \/ \E c \in CallIds : QStreamError(c) /\ UNCHANGED exceptQueue
    \/ \E c \in CallIds : QFinish(c) /\ UNCHANGED exceptQueue

----------------------------------------------------------------------------
(* createApiClient: ping, submitJob, getJobStatus, cancelJob, and the     *)
(* backend job they talk about                                            *)

\* the tokens a caller may pass ("" is the default)
TokenValues == {"", "jwt-token"}

\* the value of a header that is not set
NoHeader == [scheme |-> "none", credentials |-> ""]

\* BuildHeaders adding the header whatever the token is
BuildHeadersAlways(tok) == [scheme |-> "Bearer", credentials |-> tok]

\* buildHeaders(token).Authorization
BuildHeaders(tok) ==
    IF tok # "" THEN [scheme |-> "Bearer", credentials |-> tok] ELSE NoHeader

\* the number of requests of one operation made so far
RequestCount(op) == Cardinality({r \in requests : r.op = op})

\* fetch(url, options): the request is recorded with its Authorization
\* header and its rank among the requests of the same operation
Fetch(op, authorization) ==
    requests \cup {[op |-> op, authorization |-> authorization,
                    n |-> RequestCount(op) + 1]}

\* result of the status document the backend sends for a job state
JobSnapshot(j) ==
    CASE j = "running"  -> [status |-> "running", is_final |-> "false",
                            error |-> "undefined", poll_after_ms |-> JsNum(5)]
      [] j = "done"     -> [status |-> "done", is_final |-> "true",
                            error |-> "undefined", poll_after_ms |-> JsNum(0)]
      [] j = "failed"   -> [status |-> "failed", is_final |-> "true",
                            error |-> "boom", poll_after_ms |-> JsUndefined]
      [] j = "canceled" -> [status |-> "canceled", is_final |-> "true",
                            error |-> "undefined", poll_after_ms |-> JsUndefined]

\* answers to POST /job/submit: accepted with a task id, a success
\* status whose document has no result.task_id, a non-success status
SubmitResponses == {[ok |-> TRUE, task_id |-> "task-1"],
                    [ok |-> TRUE, task_id |-> ""],
                    [ok |-> FALSE, task_id |-> ""]}

\* the Authorization header of a request made by submitAndPoll
GetAuthHeader(tok) ==
    IF tok # "" THEN [scheme |-> "Bearer", credentials |-> tok] ELSE NoHeader

\* the number of status polls of submitAndPoll
SubmitAndPollAttempts == 60

\* what res.result of a final status document is: a string, an object
\* with a string image_base64, or anything else
ResultKinds == {"string", "image_base64", "other"}

PreloadIdle ==
    /\ facade = "none"
    /\ sapPc = "idle"
    /\ sapI = 0
    /\ sapResult = "none"

ClientIdle ==
    /\ token = ""
    /\ requests = {}
    /\ job = "none"
    /\ pingPc = "idle"
    /\ submitPc = "idle"
    /\ submitResult = ""
    /\ cancelPc = "idle"
    /\ cancelResult = NoSnapshot
    /\ cancelAt = ""
    /\ PreloadIdle

\* createApiClient({ token }), and the options of the polling call
ClientInitial ==
    /\ token \in TokenValues
    /\ requests = {}
    /\ job = "none"
    /\ pingPc = "idle"
    /\ submitPc = "idle"
    /\ submitResult = ""
    /\ cancelPc = "idle"
    /\ cancelResult = NoSnapshot
    /\ cancelAt = ""
    /\ facade \in {"api-client", "preload"}
    /\ sapPc = "idle"
    /\ sapI = 0
    /\ sapResult = "none"
    /\ PollInitial

\* ping() up to its await: the request carries no headers
ClientPing ==
    /\ facade = "api-client"
    /\ pingPc = "idle"
    /\ pingPc' = "sent"
    /\ requests' = Fetch("ping", NoHeader)
    /\ UNCHANGED <<token, job, submitPc, submitResult, cancelPc, cancelResult, cancelAt>>

\* the answer to ping()
ClientPingResponse(ok) ==
    /\ pingPc = "sent"
    /\ pingPc' = IF ParseResponse(ok) = "throw" THEN "rejected" ELSE "resolved"
    /\ UNCHANGED <<token, requests, job, submitPc, submitResult, cancelPc,
                   cancelResult, cancelAt>>

\* submitJob(payload) up to its await
ClientSubmitJob ==
    /\ facade = "api-client"
    /\ submitPc = "idle"
    /\ submitPc' = "sent"
    /\ requests' = Fetch("submit", BuildHeaders(token))
    /\ UNCHANGED <<token, job, pingPc, submitResult, cancelPc, cancelResult, cancelAt>>

\* the answer to submitJob: parseResponse throws or returns the document
ClientSubmitResponse(resp) ==
    /\ submitPc = "sent"
    /\ job' = IF resp.ok /\ resp.task_id # "" THEN "running" ELSE job
    /\ IF ParseResponse(resp.ok) = "throw"
          THEN /\ submitPc' = "rejected"
               /\ UNCHANGED submitResult
          ELSE /\ submitPc' = "resolved"
               /\ submitResult' = resp.task_id
    /\ UNCHANGED <<token, requests, pingPc, cancelPc, cancelResult, cancelAt>>

\* the backend finishes the job by itself
BackendFinishes(outcome) ==
    /\ job = "running"
    /\ job' = outcome
    /\ UNCHANGED <<token, requests, pingPc, submitPc, submitResult, cancelPc,
                   cancelResult, cancelAt>>

\* cancelJob(taskId) up to its await, for the task submitJob returned
ClientCancelJob ==
    /\ cancelPc = "idle"
    /\ submitPc = "resolved"
    /\ submitResult # ""
    /\ cancelPc' = "sent"
    /\ requests' = Fetch("cancel", BuildHeaders(token))
    /\ cancelAt' = pollPc
    /\ UNCHANGED <<token, job, pingPc, submitPc, submitResult, cancelResult>>

\* the answer to cancelJob: the backend cancels a running job and leaves
\* a finished one as it is; the document shows the job's state
ClientCancelResponse(ok) ==
    /\ cancelPc = "sent"
    /\ job' = IF ok /\ job = "running" THEN "canceled" ELSE job
    /\ IF ParseResponse(ok) = "throw"
          THEN /\ cancelPc' = "rejected"
               /\ UNCHANGED cancelResult
          ELSE /\ cancelPc' = "resolved"
               /\ cancelResult' = JobSnapshot(job')
    /\ UNCHANGED <<token, requests, pingPc, submitPc, submitResult, cancelAt>>

\* pollJobUntilFinal(taskId, ...) is called for the task submitJob returned
ClientPollCall ==
    /\ submitPc = "resolved"
    /\ submitResult # ""
    /\ PollCall
    /\ UNCHANGED clientVars

\* GetJobStatusEndpoint naming the cancel route
GetJobStatusEndpointCancel == "cancel"

\* the route getJobStatus requests, `${baseUrl}/job/${taskId}/status`
GetJobStatusEndpoint == "status"

\* the timer of the polling loop fires and getJobStatus sends its request
ClientPollDelay ==
    /\ PollDelay
    /\ requests' = Fetch(GetJobStatusEndpoint, BuildHeaders(token))
    /\ UNCHANGED <<token, job, pingPc, submitPc, submitResult, cancelPc,
                   cancelResult, cancelAt>>

\* the backend answers the status request with the job's state
ClientPollStatus ==
    /\ job # "none"
    /\ PollStatus(JobSnapshot(job))
    /\ UNCHANGED clientVars

\* the backend answers the status request with a non-success status
ClientPollStatusError ==
    /\ PollStatusError
    /\ UNCHANGED clientVars

\* submitAndPoll(operation, imageData) up to the await of its submit
\* request
SubmitAndPoll ==
    /\ facade = "preload"
    /\ sapPc = "idle"
    /\ sapPc' = "submit"
    /\ requests' = Fetch("submit", GetAuthHeader(token))
    /\ UNCHANGED <<facade, sapI, sapResult>>
    /\ UNCHANGED <<token, job, pingPc, submitPc, submitResult, cancelPc,
                   cancelResult, cancelAt>>

\* the answer to the submit request: a non-success status and a missing
\* task id both throw; otherwise the loop starts
SubmitAndPollSubmitted(resp) ==
    /\ sapPc = "submit"
    /\ job' = IF resp.ok /\ resp.task_id # "" THEN "running" ELSE job
    /\ IF ~resp.ok
          THEN sapPc' = "rejected" /\ sapResult' = "Submit failed"
          ELSE IF resp.task_id = ""
          THEN sapPc' = "rejected" /\ sapResult' = "No task_id returned"
          ELSE sapPc' = "wait" /\ UNCHANGED sapResult
    /\ UNCHANGED <<facade, sapI>>
    /\ UNCHANGED <<token, requests, pingPc, submitPc, submitResult, cancelPc,
                   cancelResult, cancelAt>>

\* the timer of the loop fires and the status request is sent
SubmitAndPollDelay ==
    /\ sapPc = "wait"
    /\ sapPc' = "status"
    /\ requests' = Fetch("status", GetAuthHeader(token))
    /\ UNCHANGED <<facade, sapI, sapResult>>
    /\ UNCHANGED <<token, job, pingPc, submitPc, submitResult, cancelPc,
                   cancelResult, cancelAt>>

\* the answer to a status request, and the loop condition after it
SubmitAndPollStatus(ok, kind) ==
    /\ sapPc = "status"
    /\ LET res == JobSnapshot(job)
       IN  IF ~ok
              THEN sapPc' = "rejected" /\ sapResult' = "Status check failed" /\ UNCHANGED sapI
           ELSE IF res.is_final = "true" /\ Truthy(res.error)
              THEN sapPc' = "rejected" /\ sapResult' = res.error /\ UNCHANGED sapI
           ELSE IF res.is_final = "true"
              THEN IF job = "done" /\ kind \in {"string", "image_base64"}
                      THEN sapPc' = "resolved" /\ sapResult' = "blob" /\ UNCHANGED sapI
                      ELSE /\ sapPc' = "rejected"
                           /\ sapResult' = "Unexpected final result payload"
                           /\ UNCHANGED sapI
           ELSE /\ sapI' = sapI + 1
                /\ IF sapI + 1 < SubmitAndPollAttempts
                      THEN sapPc' = "wait" /\ UNCHANGED sapResult
                      ELSE sapPc' = "rejected" /\ sapResult' = "Timeout waiting for job result"
    /\ UNCHANGED facade
    /\ UNCHANGED clientVars

NextClient ==
    \/ ClientPing /\ UNCHANGED <<pollVars, preloadVars, exceptClient>>
    \/ \E ok \in BOOLEAN : ClientPingResponse(ok) /\ UNCHANGED <<pollVars, preloadVars, exceptClient>>
    \/ ClientSubmitJob /\ UNCHANGED <<pollVars, preloadVars, exceptClient>>
    \/ \E resp \in SubmitResponses :
          ClientSubmitResponse(resp) /\ UNCHANGED <<pollVars, preloadVars, exceptClient>>
    \/ \E outcome \in {"done", "failed"} :
          BackendFinishes(outcome) /\ UNCHANGED <<pollVars, preloadVars, exceptClient>>
    \/ ClientCancelJob /\ UNCHANGED <<pollVars, preloadVars, exceptClient>>
    \/ \E ok \in BOOLEAN : ClientCancelResponse(ok) /\ UNCHANGED <<pollVars, preloadVars, exceptClient>>
    \/ ClientPollCall /\ UNCHANGED <<preloadVars, exceptClient>>
    \/ ClientPollDelay /\ UNCHANGED <<preloadVars, exceptClient>>
    \/ ClientPollStatus /\ UNCHANGED <<preloadVars, exceptClient>>
    \/ ClientPollStatusError /\ UNCHANGED <<preloadVars, exceptClient>>
    \/ SubmitAndPoll /\ UNCHANGED <<pollVars, exceptClient>>
    \/ \E resp \in SubmitResponses :
          SubmitAndPollSubmitted(resp) /\ UNCHANGED <<pollVars, exceptClient>>
    \/ SubmitAndPollDelay /\ UNCHANGED <<pollVars, exceptClient>>
    \/ \E ok \in BOOLEAN, kind \in ResultKinds :
          SubmitAndPollStatus(ok, kind) /\ UNCHANGED <<pollVars, exceptClient>>

----------------------------------------------------------------------------
(* compareVersions.  A version string is a sequence of characters.        *)

Digits == <<"0", "1", "2", "3", "4", "5", "6", "7", "8", "9">>

IsDigit(ch) == \E i \in 1..10 : Digits[i] = ch

DigitValue(ch) == (CHOOSE i \in 1..10 : Digits[i] = ch) - 1

\* text.split('.')
RECURSIVE Split(_)
Split(text) ==
    IF \A i \in 1..Len(text) : text[i] # "."
       THEN <<text>>
       ELSE LET dot == CHOOSE i \in 1..Len(text) :
                           text[i] = "." /\ \A j \in 1..(i - 1) : text[j] # "."
            IN  <<SubSeq(text, 1, dot - 1)>> \o Split(SubSeq(text, dot + 1, Len(text)))

\* the value of the digits a text starts with, read from the left with
\* `acc` the value of the digits read so far
RECURSIVE LeadingDigits(_, _)
LeadingDigits(text, acc) ==
    IF text = <<>> \/ ~IsDigit(Head(text)) THEN acc
    ELSE LeadingDigits(Tail(text), 10 * acc + DigitValue(Head(text)))

\* Number.parseInt(x, 10) || 0: NaN (no leading digit) reads as 0
ParseIntOrZero(text) ==
    IF text = <<>> \/ ~IsDigit(Head(text)) THEN 0 ELSE LeadingDigits(text, 0)

\* String(v || '0').split('.').map((x) => Number.parseInt(x, 10) || 0)
VersionParts(text) ==
    LET parts == Split(IF text = <<>> THEN <<"0">> ELSE text)
    IN  [i \in 1..Len(parts) |-> ParseIntOrZero(parts[i])]

\* pa[i] || 0
PartOrZero(parts, i) == IF i <= Len(parts) THEN parts[i] ELSE 0

\* the loop of compareVersions from index i on, over n components
RECURSIVE CompareFrom(_, _, _, _)
CompareFrom(pa, pb, i, n) ==
    IF i > n THEN 0
    ELSE IF PartOrZero(pa, i) > PartOrZero(pb, i) THEN 1
    ELSE IF PartOrZero(pa, i) < PartOrZero(pb, i) THEN -1
    ELSE CompareFrom(pa, pb, i + 1, n)

\* CompareVersions looping over the shorter list only
CompareVersionsShorter(a, b) ==
    LET pa == VersionParts(a)
        pb == VersionParts(b)
    IN  CompareFrom(pa, pb, 1, IF Len(pa) < Len(pb) THEN Len(pa) ELSE Len(pb))

\* compareVersions(a, b)
CompareVersions(a, b) ==
    LET pa == VersionParts(a)
        pb == VersionParts(b)
    IN  CompareFrom(pa, pb, 1, IF Len(pa) > Len(pb) THEN Len(pa) ELSE Len(pb))

\* the integers version strings are written from, with their decimal text
ComponentTexts == [n \in {0, 1, 2, 9, 10} |->
                     CASE n = 0  -> <<"0">>
                       [] n = 1  -> <<"1">>
                       [] n = 2  -> <<"2">>
                       [] n = 9  -> <<"9">>
                       [] n = 10 -> <<"1", "0">>]

\* the text of a version: the decimal texts of its components joined
\* with dots
RECURSIVE VersionText(_)
VersionText(parts) ==
    IF Len(parts) = 1 THEN ComponentTexts[parts[1]]
    ELSE ComponentTexts[parts[1]] \o <<".">> \o VersionText(Tail(parts))

\* the lists of components of the version strings tried
VersionLists == UNION {[1..k -> DOMAIN ComponentTexts] : k \in 1..MaxComponents}

VersionsIdle ==
    /\ verA = <<>>
    /\ verB = <<>>
    /\ partsA = <<>>
    /\ partsB = <<>>
    /\ cmpPc = "idle"
    /\ cmpAB = 0
    /\ cmpBA = 0

VersionsInitial ==
    /\ partsA \in VersionLists
    /\ partsB \in VersionLists
    /\ verA = VersionText(partsA)
    /\ verB = VersionText(partsB)
    /\ cmpPc = "call"
    /\ cmpAB = 0
    /\ cmpBA = 0

\* compareVersions(a, b) and compareVersions(b, a) are called
CallCompareVersions ==
    /\ cmpPc = "call"
    /\ cmpAB' = CompareVersions(verA, verB)
    /\ cmpBA' = CompareVersions(verB, verA)
    /\ cmpPc' = "done"
    /\ UNCHANGED <<verA, verB, partsA, partsB>>

NextVersions ==
    \/ CallCompareVersions /\ UNCHANGED exceptVersions

----------------------------------------------------------------------------
(* readJson, readRegistry, fetchJson and checkModelUpdates                 *)

\* the version strings of manifest and registry entries; <<>> is a
\* missing (or empty) version
CheckVersions == {<<>>, VersionText(<<1, 9, 9>>), VersionText(<<1, 10, 0>>)}

\* the entry of a key in a manifest's models; present = FALSE when the
\* key is not in the document
NoManifestEntry == [present |-> FALSE, required |-> FALSE, version |-> <<>>]

ManifestEntryValues ==
    {NoManifestEntry} \cup [present : {TRUE}, required : BOOLEAN, version : CheckVersions]

\* the entry of a key in the registry's models
NoRegistryEntry == [present |-> FALSE, version |-> <<>>]

RegistryEntryValues == {NoRegistryEntry} \cup [present : {TRUE}, version : CheckVersions]

NoModels == [k \in ModelKeys |-> NoRegistryEntry]

\* what the file models.json may be: missing, not JSON, or the JSON text
\* of null, of an object without models, or of a registry document
RegistryFiles ==
    [shape : {"missing", "unparsable", "null", "no-models"}, models : {NoModels}]
    \cup [shape : {"document"}, models : [ModelKeys -> RegistryEntryValues]]

\* readJson(filePath, fallback): the fallback when reading or parsing
\* throws, the parsed value otherwise
ReadJson(file, fallback) ==
    IF file.shape \in {"missing", "unparsable"} THEN fallback ELSE file

\* { schema: 'playe.models.registry.v1', models: {} }
EmptyRegistry == [shape |-> "document", models |-> NoModels]

\* readRegistry(modelsDir)
ReadRegistry(file) == ReadJson(file, EmptyRegistry)

\* Object.entries(manifest.models) lists the keys in this order
KeyOrder == <<"m1", "m2">>

\* `registry.models[key]` throws a TypeError for null and for an object
\* without models
RegistryLookupThrows(reg) == reg.shape \in {"null", "no-models"}

\* UpdatesFrom reporting every model without a registry entry as
\* missing, required or not
RECURSIVE UpdatesFromAnyMissing(_, _, _, _)
UpdatesFromAnyMissing(models, remoteTruthy, reg, i) ==
    IF i > Len(KeyOrder) THEN <<>>
    ELSE LET key   == KeyOrder[i]
             entry == models[key]
             local == reg.models[key]
             rest  == UpdatesFromAnyMissing(models, remoteTruthy, reg, i + 1)
         IN  IF ~entry.present THEN rest
             ELSE IF ~local.present
                THEN <<[key |-> key, reason |-> "missing", currentVersion |-> <<>>,
                        targetVersion |-> entry.version]>> \o rest
             ELSE rest

\* the updates pushed by the loop from position i of KeyOrder on
RECURSIVE UpdatesFrom(_, _, _, _)
UpdatesFrom(models, remoteTruthy, reg, i) ==
    IF i > Len(KeyOrder) THEN <<>>
    ELSE LET key   == KeyOrder[i]
             entry == models[key]
             local == reg.models[key]
             rest  == UpdatesFrom(models, remoteTruthy, reg, i + 1)
         IN  IF ~entry.present THEN rest
             ELSE IF entry.required /\ ~local.present
                THEN <<[key |-> key, reason |-> "missing", currentVersion |-> <<>>,
                        targetVersion |-> entry.version]>> \o rest
             ELSE IF /\ remoteTruthy
                     /\ local.present
                     /\ entry.version # <<>>
                     /\ local.version # <<>>
                     /\ CompareVersions(entry.version, local.version) > 0
                THEN <<[key |-> key, reason |-> "new-version",
                        currentVersion |-> local.version,
                        targetVersion |-> entry.version]>> \o rest
             ELSE rest

NoCheckResult == [updatesAvailable |-> FALSE, updates |-> <<>>]

\* how the remote URL answers after its redirects: the connection fails,
\* a status other than 200, a body that is not JSON, a body that breaks
\* off, or the JSON text of null, of an object without models, or of a
\* manifest; or the URLs it redirects to redirect back to it
RemoteAnswers ==
    [answer : {"connection-error", "http-error", "invalid-json", "aborted",
               "json-null", "json-no-models", "redirect-loop"},
     models : {[k \in ModelKeys |-> NoManifestEntry]}]
    \cup [answer : {"json-models"}, models : [ModelKeys -> ManifestEntryValues]]

CheckIdle ==
    /\ localManifest = [k \in ModelKeys |-> NoManifestEntry]
    /\ registryFile = [shape |-> "missing", models |-> NoModels]
    /\ remoteUrl = FALSE
    /\ remoteServer = [redirects |-> 0, answer |-> "connection-error",
                       models |-> [k \in ModelKeys |-> NoManifestEntry]]
    /\ checkPc = "idle"
    /\ checkRegistry = EmptyRegistry
    /\ checkResult = NoCheckResult
    /\ checkError = "none"
    /\ hops = 0
    /\ fetchUrl = "remote"
    /\ usedManifest = "none"

FetchFailures == {"connection-error", "http-error", "invalid-json"}

\* FetchJson resolving with null when the fetch fails
FetchJsonNullOnFailure(answer) ==
    IF answer = "aborted" THEN "abort" ELSE "resolve"

\* how the promise of fetchJson settles for an answer of the server (its
\* redirects followed): it rejects, it resolves with the parsed body, or
\* the body broke off, for which fetchJson has no handler
FetchJson(answer) ==
    IF answer \in FetchFailures THEN "reject"
    ELSE IF answer = "aborted" THEN "abort"
    ELSE "resolve"

\* the models of the local manifest are well formed (readManifest did
\* not throw)
CheckInitial ==
    /\ localManifest \in [ModelKeys -> ManifestEntryValues]
    /\ registryFile \in RegistryFiles
    /\ remoteUrl \in BOOLEAN
    /\ remoteServer \in {[redirects |-> n, answer |-> a.answer, models |-> a.models] :
                             n \in 0..MaxHops, a \in RemoteAnswers}
    /\ (~remoteUrl) => remoteServer = [redirects |-> 0, answer |-> "connection-error",
                                       models |-> [k \in ModelKeys |-> NoManifestEntry]]
    /\ remoteServer.answer = "redirect-loop" => remoteServer.redirects = 0
    /\ checkPc = "call"
    /\ checkRegistry = EmptyRegistry
    /\ checkResult = NoCheckResult
    /\ checkError = "none"
    /\ hops = 0
    /\ fetchUrl = "remote"
    /\ usedManifest = "none"

\* checkModelUpdates from `const manifestToUse = ...` to its return, for
\* the value of remoteManifest; reg is the registry read at the call
EvaluateManifest(remoteKind, remoteModels, reg) ==
    LET useRemote    == remoteKind = "json-models"
        remoteTruthy == remoteKind \in {"json-models", "json-no-models"}
        models       == IF useRemote THEN remoteModels ELSE localManifest
        updates      == UpdatesFrom(models, remoteTruthy, reg, 1)
    IN  /\ usedManifest' = IF useRemote THEN "remote" ELSE "local"
        /\ IF RegistryLookupThrows(reg) /\ \E k \in ModelKeys : models[k].present
              THEN /\ checkPc' = "rejected"
                   /\ checkError' = "TypeError"
                   /\ UNCHANGED checkResult
              ELSE /\ checkPc' = "resolved"
                   /\ checkResult' = [updatesAvailable |-> Len(updates) > 0,
                                      updates |-> updates]
                   /\ UNCHANGED checkError

\* checkModelUpdates(options) up to the await of fetchJson, or to its
\* end when no remote URL is configured
CheckModelUpdates ==
    /\ checkPc = "call"
    /\ checkRegistry' = ReadRegistry(registryFile)
    /\ IF remoteUrl
          THEN /\ checkPc' = "fetching"
               /\ UNCHANGED <<checkResult, checkError, usedManifest>>
          ELSE EvaluateManifest("none", localManifest, ReadRegistry(registryFile))
    /\ UNCHANGED <<localManifest, registryFile, remoteUrl, remoteServer, hops,
                   fetchUrl>>

\* whether the server answers the request in flight with a redirect
AnswersRedirect ==
    hops < remoteServer.redirects \/ remoteServer.answer = "redirect-loop"

\* fetchJson: a 3xx answer with a location is followed,
\* `resolve(fetchJson(res.headers.location))`
FetchRedirected ==
    /\ checkPc = "fetching"
    /\ AnswersRedirect
    /\ hops' = IF hops < MaxHops THEN hops + 1 ELSE hops
    /\ fetchUrl' = Location(fetchUrl)
    /\ UNCHANGED <<localManifest, registryFile, remoteUrl, remoteServer, checkPc,
                   checkRegistry, checkResult, checkError, usedManifest>>

\* fetchJson rejects and checkModelUpdates with it
FetchRejected ==
    /\ checkPc = "fetching"
    /\ ~AnswersRedirect
    /\ FetchJson(remoteServer.answer) = "reject"
    /\ checkPc' = "rejected"
    /\ checkError' = "fetch"
    /\ UNCHANGED <<localManifest, registryFile, remoteUrl, remoteServer,
                   checkRegistry, checkResult, hops, fetchUrl, usedManifest>>

\* the body breaks off: the 'error' event of the response has no
\* listener and is thrown, or the response only emits 'aborted' and the
\* promise stays pending
FetchAborted ==
    /\ checkPc = "fetching"
    /\ ~AnswersRedirect
    /\ FetchJson(remoteServer.answer) = "abort"
    /\ checkPc' \in {"uncaught", "pending"}
    /\ UNCHANGED <<localManifest, registryFile, remoteUrl, remoteServer,
                   checkRegistry, checkResult, checkError, hops, fetchUrl, usedManifest>>

\* fetchJson resolves and checkModelUpdates runs to its end
FetchResolved ==
    /\ checkPc = "fetching"
    /\ ~AnswersRedirect
    /\ FetchJson(remoteServer.answer) = "resolve"
    /\ EvaluateManifest(IF remoteServer.answer \in {"json-models", "json-no-models"}
                           THEN remoteServer.answer ELSE "json-null",
                        remoteServer.models, checkRegistry)
    /\ UNCHANGED <<localManifest, registryFile, remoteUrl, remoteServer,
                   checkRegistry, hops, fetchUrl>>

----------------------------------------------------------------------------
(* updateModels                                                            *)

UpdateIdle ==
    /\ updPc = "idle"
    /\ updKeys = <<>>
    /\ updated = <<>>
    /\ recheck = NoCheckResult

\* updateModels(options) at `await checkModelUpdates(options)`
UpdateInitial ==
    /\ updPc = "check"
    /\ updKeys = <<>>
    /\ updated = <<>>
    /\ recheck = NoCheckResult

\* check.updates.map((u) => u.key)
UpdateKeys(updates) == [i \in 1..Len(updates) |-> updates[i].key]

\* updateModels after its checkModelUpdates has settled: the rejection is
\* passed on, `{ updated: [], ...check }` is returned when nothing is to
\* be updated, downloadMany is called otherwise
UpdateModelsChecked ==
    /\ updPc = "check"
    /\ checkPc \in {"resolved", "rejected"}
    /\ IF checkPc = "rejected"
          THEN updPc' = "rejected" /\ UNCHANGED updKeys
       ELSE IF ~checkResult.updatesAvailable
          THEN updPc' = "resolved" /\ UNCHANGED updKeys
       ELSE updPc' = "download" /\ updKeys' = UpdateKeys(checkResult.updates)
    /\ UNCHANGED <<updated, recheck, checkVars>>

\* the registry entry downloadModel writes for a manifest entry
DownloadedEntry(entry) == [present |-> TRUE, version |-> entry.version]

\* one turn of the loop of downloadMany: downloadModel(key) with the
\* entry of the local manifest; ok tells whether the URL is configured
\* and downloadToFile succeeds
UpdateDownloadModel(ok) ==
    /\ updPc = "download"
    /\ LET key   == updKeys[Len(updated) + 1]
           entry == localManifest[key]
           reg   == ReadRegistry(registryFile)
       IN  IF ~entry.present \/ ~ok \/ RegistryLookupThrows(reg)
              THEN /\ updPc' = "rejected"
                   /\ UNCHANGED <<updated, registryFile>>
              ELSE /\ registryFile' =
                          [shape  |-> "document",
                           models |-> [reg.models EXCEPT ![key] = DownloadedEntry(entry)]]
                   /\ updated' = Append(updated, key)
                   /\ updPc' = IF Len(updated) + 1 = Len(updKeys)
                                  THEN "resolved" ELSE "download"
    /\ UNCHANGED <<updKeys, recheck, localManifest, remoteUrl, remoteServer,
                   checkPc, checkRegistry, checkResult, checkError, hops,
                   fetchUrl, usedManifest>>

\* checkModelUpdates(options) called again after updateModels has
\* resolved, the remote server answering as it did to the first call
CheckModelUpdatesAgain ==
    /\ updPc = "resolved"
    /\ LET reg          == ReadRegistry(registryFile)
           remoteKind   == IF ~remoteUrl THEN "none" ELSE remoteServer.answer
           useRemote    == remoteKind = "json-models"
           remoteTruthy == remoteKind \in {"json-models", "json-no-models"}
           models       == IF useRemote THEN remoteServer.models ELSE localManifest
           updates      == UpdatesFrom(models, remoteTruthy, reg, 1)
       IN  IF RegistryLookupThrows(reg) /\ \E k \in ModelKeys : models[k].present
              THEN updPc' = "recheck-rejected" /\ UNCHANGED recheck
              ELSE /\ updPc' = "rechecked"
                   /\ recheck' = [updatesAvailable |-> Len(updates) > 0,
                                  updates |-> updates]
    /\ UNCHANGED <<updKeys, updated, checkVars>>

NextUpdate ==
    \/ CheckModelUpdates /\ UNCHANGED <<updateVars, exceptUpdate>>
    \/ FetchRedirected /\ UNCHANGED <<updateVars, exceptUpdate>>
    \/ FetchRejected /\ UNCHANGED <<updateVars, exceptUpdate>>
    \/ FetchAborted /\ UNCHANGED <<updateVars, exceptUpdate>>
    \/ FetchResolved /\ UNCHANGED <<updateVars, exceptUpdate>>
    \/ UpdateModelsChecked /\ UNCHANGED exceptUpdate
    \/ \E ok \in BOOLEAN : UpdateDownloadModel(ok) /\ UNCHANGED exceptUpdate
    \/ CheckModelUpdatesAgain /\ UNCHANGED exceptUpdate

NextCheck ==
    \/ CheckModelUpdates /\ UNCHANGED exceptCheck
    \/ FetchRedirected /\ UNCHANGED exceptCheck
    \/ FetchRejected /\ UNCHANGED exceptCheck
    \/ FetchAborted /\ UNCHANGED exceptCheck
    \/ FetchResolved /\ UNCHANGED exceptCheck

----------------------------------------------------------------------------
(* Specifications *)

NextPoll ==
    \/ PollCall /\ UNCHANGED exceptPoll
    \/ PollDelay /\ UNCHANGED exceptPoll
    \/ \E backend \in Snapshots : PollStatus(backend) /\ UNCHANGED exceptPoll
    \/ PollStatusError /\ UNCHANGED exceptPoll

InitPoll == PollInitial /\ DownloadIdle /\ QueueIdle /\ ClientIdle /\ VersionsIdle /\ CheckIdle /\ UpdateIdle

SpecPoll == InitPoll /\ [][NextPoll]_vars

PollIdle ==
    /\ maxAttempts = 0
    /\ intervalMs = 1
    /\ hasOnProgress = FALSE
    /\ pollPc = "idle"
    /\ attempts = 0
    /\ nextIntervalMs = 0
    /\ pollResult = NoResult
    /\ statusFetches = 0
    /\ progressCalls = 0
    /\ lastSnapshot = NoSnapshot
    /\ terminalSeen = 0
    /\ waits = <<>>
    /\ hints = <<>>
    /\ statusErrors = 0

InitDownload == DownloadInitial /\ PollIdle /\ QueueIdle /\ ClientIdle /\ VersionsIdle /\ CheckIdle /\ UpdateIdle

SpecDownload == InitDownload /\ [][NextDownload]_vars

\* SpecDownload where every event that is due arrives
SpecDownloadLive == InitDownload /\ [][NextDownload]_vars /\ WF_vars(NextDownload)

InitQueue == QueueInitial /\ PollIdle /\ DownloadIdle /\ ClientIdle /\ VersionsIdle /\ CheckIdle /\ UpdateIdle

SpecQueue == InitQueue /\ [][NextQueue]_vars

InitClient == ClientInitial /\ DownloadIdle /\ QueueIdle /\ VersionsIdle /\ CheckIdle /\ UpdateIdle

SpecClient == InitClient /\ [][NextClient]_vars

InitVersions == VersionsInitial /\ PollIdle /\ DownloadIdle /\ QueueIdle /\ ClientIdle /\ CheckIdle /\ UpdateIdle

SpecVersions == InitVersions /\ [][NextVersions]_vars

InitCheck == CheckInitial /\ PollIdle /\ DownloadIdle /\ QueueIdle /\ ClientIdle /\ VersionsIdle /\ UpdateIdle

SpecCheck == InitCheck /\ [][NextCheck]_vars

InitUpdate == CheckInitial /\ UpdateInitial /\ PollIdle /\ DownloadIdle /\ QueueIdle /\ ClientIdle /\ VersionsIdle

SpecUpdate == InitUpdate /\ [][NextUpdate]_vars

----------------------------------------------------------------------------
(* Properties of pollJobUntilFinal, checked under SpecPoll *)

\* the outcome the job protocol prescribes for a payload, case by case
ExpectedOutcome(s) ==
    LET lower == ToLowerCase(IF s.status = "" THEN "pending" ELSE s.status)
        err   == s.error \notin {"undefined", "null"}
    IN  CASE s.is_final = "true" /\ ~err -> "success"
          [] s.is_final = "true" /\ err -> "failure"
          [] s.is_final # "true" /\ lower \in {"success", "done"} -> "success"
          [] s.is_final # "true" /\ lower \in {"failure", "failed", "error"} -> "failure"
          [] OTHER -> "continue"

\* C6: after every status payload the call has decided by the precedence
\* is_final without error -> success, is_final with error -> failure,
\* success status -> success, failure status -> failure, otherwise it has
\* not settled with that payload (it polls again or runs out of attempts).
C6_TerminationPrecedence ==
    (Len(hints) > 0 /\ pollResult.final # "rejected") =>
        LET e == ExpectedOutcome(lastSnapshot)
        IN  IF e = "continue"
               THEN pollResult.final \in {"none", "timeout"}
               ELSE /\ pollPc = "done"
                    /\ pollResult = [final |-> e, payload |-> lastSnapshot]

\* C6 witness: a payload with is_final, an error and status 'done' was
\* answered with 'failure'.
C6_Witness ==
    /\ pollPc = "done"
    /\ pollResult.final = "failure"
    /\ pollResult.payload.is_final = "true"
    /\ pollResult.payload.error = "boom"
    /\ pollResult.payload.status = "done"

\* C7: onProgress is called once per status payload; a terminal payload
\* ends the call at once, so k non-terminal payloads followed by a final
\* one make k+1 status fetches and k+1 onProgress calls, and a final
\* payload without error resolves 'success'.
NonTerminalSeen == Len(hints) - terminalSeen

C7_NoProgressAfterFinal ==
    /\ hasOnProgress => progressCalls = Len(hints)
    /\ ~hasOnProgress => progressCalls = 0
    /\ terminalSeen <= 1
    /\ terminalSeen = 1 =>
          /\ pollPc = "done"
          /\ pollResult.final \in {"success", "failure"}
          /\ IsTerminalSnapshot(lastSnapshot)
          /\ statusFetches = NonTerminalSeen + 1
          /\ hasOnProgress => progressCalls = NonTerminalSeen + 1
          /\ (lastSnapshot.is_final = "true" /\ lastSnapshot.error \in {"undefined", "null"})
                => pollResult.final = "success"

\* C7 witness: two non-terminal payloads, then a final one: three polls,
\* three onProgress calls, 'success'.
C7_Witness ==
    /\ pollPc = "done"
    /\ hasOnProgress
    /\ terminalSeen = 1
    /\ lastSnapshot.is_final = "true"
    /\ NonTerminalSeen = 2
    /\ statusFetches = 3
    /\ progressCalls = 3
    /\ pollResult.final = "success"

\* C8: the call never makes more than maxAttempts status fetches, and it
\* resolves 'timeout' with a null payload exactly when maxAttempts
\* non-terminal payloads were received.
C8_PollingTimeout ==
    /\ statusFetches <= maxAttempts
    /\ pollResult.final = "timeout" =>
          /\ pollPc = "done"
          /\ pollResult.payload = JsNull
          /\ statusFetches = maxAttempts
          /\ Len(hints) = maxAttempts
          /\ terminalSeen = 0
    /\ (pollPc = "done" /\ terminalSeen = 0 /\ pollResult.final # "rejected")
          => pollResult.final = "timeout"

\* C8 witness: a timeout after the largest number of status fetches tried.
C8_Witness ==
    /\ pollResult = TimeoutResult
    /\ maxAttempts = MaxAttemptsBound
    /\ statusFetches = MaxAttemptsBound

ValidHint(h) == h.t = "num" /\ h.v >= 0

\* C9: the first wait is intervalMs; each later wait is the poll_after_ms
\* of the payload before it when that is an integer >= 0, and the wait
\* before it otherwise.
C9_AdaptiveInterval ==
    \A i \in 1..Len(waits) :
        IF i = 1 THEN waits[i] = intervalMs
        ELSE IF ValidHint(hints[i - 1]) THEN waits[i] = hints[i - 1].v
        ELSE waits[i] = waits[i - 1]

\* C9 witness: the second wait took the hint 5 instead of the caller's
\* 600, and the third, after a payload without a valid hint, kept it.
C9_Witness ==
    /\ intervalMs = 600
    /\ Len(waits) = 3
    /\ hints[1] = JsNum(5)
    /\ waits[2] = 5
    /\ hints[2] = JsNum(-1)
    /\ waits[3] = 5

----------------------------------------------------------------------------
(* Properties of downloadToFile, checked under SpecDownload *)

\* the whole body the server has to send, as a file
WholeBody == Content(body, SumSeq(payload))

\* C1: with an expected digest supplied, once the digest of the received
\* bytes has been compared and differs, the call has rejected, the file
\* at destPath is the one that was there before the call (or none) and the
\* temp file is gone; destPath never changes unless the digests agree.
C1_DigestEnforcement ==
    /\ (expectedSha256 # NoSha /\ fileState = "closed"
          /\ Sha256(body, downloaded) # expectedSha256)
          => /\ settled = "rejected"
             /\ destFile = destBefore
             /\ tmpFile = NoFile
    /\ (expectedSha256 # NoSha /\ destFile # destBefore)
          => <<destFile>> = expectedSha256
    /\ (expectedSha256 # NoSha /\ settled = "resolved")
          => dlResult.sha256 = expectedSha256

\* C1 witness: the whole body of the wrong content arrived, the digests
\* were compared, and the call rejected leaving the old file in place.
C1_Witness ==
    /\ expectedSha256 # NoSha
    /\ body = "evil"
    /\ resState = "ended"
    /\ downloaded = SumSeq(payload)
    /\ downloaded > 0
    /\ fileState = "closed"
    /\ settled = "rejected"
    /\ dlResult.kind = "sha256"
    /\ destBefore = OldFile
    /\ destFile = OldFile

\* C2: the file at destPath is the one from before the call, or the
\* whole body, put there by the rename of the temp file after the
\* response ended; never a part of the body.
C2_Atomicity ==
    \/ destFile = destBefore
    \/ /\ destFile = WholeBody
       /\ resState = "ended"
       /\ received = Len(payload)
       /\ tmpFile = NoFile
       /\ fileState = "closed"

\* C2 witness: the response failed after a part of the body, the write
\* stream finished and closed afterwards with no digest to compare, and
\* destPath is untouched.
C2_Witness ==
    /\ resState = "errored"
    /\ 0 < received
    /\ received < Len(payload)
    /\ expectedSha256 = NoSha
    /\ fileState = "closed"
    /\ destFile = destBefore

IsNonDecreasing(q) == \A i \in 1..Len(q) : \A j \in i..Len(q) : q[i] <= q[j]

\* C10: the values passed to onProgress never decrease and lie in
\* 0..100; a resolved call reported 100 last; nothing is reported after
\* the call has settled.
C10_ProgressMonotonic ==
    /\ IsNonDecreasing(percents)
    /\ \A i \in 1..Len(percents) : percents[i] \in 0..100
    /\ (settled = "resolved" /\ onProgressGiven)
          => (Len(percents) > 0 /\ percents[Len(percents)] = 100)
    /\ settled # "pending" => Len(percents) = percentsAtSettle
    /\ ~onProgressGiven => percents = <<>>

\* C10 witness: a resolved download of unknown length whose estimate
\* reached the cap before the final 100.
C10_Witness ==
    /\ settled = "resolved"
    /\ contentLength = 0
    /\ Len(percents) >= 3
    /\ percents[Len(percents) - 1] = 99
    /\ percents[Len(percents)] = 100

\* C20: after downloadToFile failed at any stage (the request, the
\* response stream, the write stream, the digest comparison, the rename
\* to destPath), the temp file does not exist and the call has rejected.
C20_NoPartialArtifacts ==
    (\/ dlPc = "failed"
     \/ resState = "errored"
     \/ fileState = "errored"
     \/ (fileState = "closed" /\ ShaMismatch(expectedSha256, Sha256(body, downloaded)))
     \/ (fileState = "closed" /\ uncaught))
    => (tmpFile = NoFile /\ settled = "rejected")

\* C21: when the response announces its length, no two consecutive
\* values passed to onProgress are equal, the value 100 included.
C21_ProgressDeduplicated ==
    HasTotal(contentLength) =>
        \A i \in 1..(Len(percents) - 1) : percents[i] # percents[i + 1]

\* C27: the value 100 is passed to onProgress only by a download that
\* succeeds: a call that has rejected, or whose rename threw, has
\* reported no 100.
C27_HundredMeansPublished ==
    (settled = "rejected" \/ uncaught) =>
        \A i \in 1..Len(percents) : percents[i] # 100

----------------------------------------------------------------------------
(* Properties of downloadModel / downloadMany, checked under SpecQueue *)

\* a declared checksum without its optional 'sha256:' prefix
StripSha256Prefix(checksum) ==
    IF checksum # <<>> /\ Head(checksum) = Sha256Prefix THEN Tail(checksum) ELSE checksum

\* C3: every registry entry written for a key whose manifest entry
\* declares a checksum carries that checksum (without its 'sha256:'
\* prefix) as its digest, and it is the digest of what the server sent;
\* no entry is written for content with another digest.
C3_RegistryDigest ==
    /\ \A e \in writes :
          manifest[e.key].checksum # <<>> =>
             /\ e.sha256 = StripSha256Prefix(manifest[e.key].checksum)
             /\ Sha256(server[e.key], ModelBytes) = StripSha256Prefix(manifest[e.key].checksum)
    /\ \A k \in ModelKeys :
          (registry[k] # NoEntry /\ manifest[k].checksum # <<>>) =>
             registry[k].sha256 = StripSha256Prefix(manifest[k].checksum)

\* C3 witness: an entry was written for a key whose checksum is declared
\* with the prefix.
C3_Witness ==
    /\ manifest["m1"].checksum = <<Sha256Prefix>> \o Sha256("good", ModelBytes)
    /\ registry["m1"] = [key |-> "m1", sha256 |-> Sha256("good", ModelBytes), bytes |-> ModelBytes]
    /\ registry["m1"] \in writes
    /\ destFiles["m1"] = Content("good", ModelBytes)

\* C4: at most one network transfer is in progress, however the calls of
\* downloadModel and downloadMany overlap.
C4_GlobalSingleFlight ==
    Cardinality({c \in CallIds : Transferring(calls[c])}) <= 1

\* how the download of key k ends when it is attempted
DownloadSucceeds(k) ==
    /\ manifest[k].present
    /\ ~manifest[k].placeholder
    /\ server[k] = "good"
DownloadFails(k) == server[k] \in {"reset", "http-error"}

\* C5: when keys A then B are passed together, the download of A fails
\* and that of B succeeds, the call does not end before B is downloaded
\* and the registry entry of B is written.
C5_QueueFailureIsolation ==
    \A c \in CallIds :
        (/\ calls[c].kind = "many"
         /\ calls[c].pc \in {"resolved", "rejected"}
         /\ Len(calls[c].keys) = 2
         /\ manifest[calls[c].keys[1]].present
         /\ ~manifest[calls[c].keys[1]].placeholder
         /\ DownloadFails(calls[c].keys[1])
         /\ DownloadSucceeds(calls[c].keys[2]))
        => /\ \E e \in writes : e.key = calls[c].keys[2]
           /\ destFiles[calls[c].keys[2]] # NoFile

\* C12: a non-success HTTP status of a status request makes the polling
\* call reject at that attempt: the error is the last thing the call
\* received, the call resolves with none of 'success', 'failure',
\* 'timeout', and nothing of the call changes afterwards.
C12_StatusErrorRejects ==
    /\ [](statusErrors > 0 =>
            /\ statusErrors = 1
            /\ pollPc = "done"
            /\ pollResult = [final |-> "rejected", payload |-> JsNull]
            /\ statusFetches = Len(hints) + 1)
    /\ [][statusErrors > 0 => UNCHANGED pollVars]_vars

\* C12 witness: the error came after two successful polls.
C12_Witness ==
    /\ statusErrors = 1
    /\ statusFetches = 3
    /\ pollResult.final = "rejected"

\* whether a call is over: its promise has settled
CallOver(call) == call.pc \in {"resolved", "rejected"}

\* whether the loop of a downloadMany call is running
DrainLoopRunning(call) == call.kind = "many" /\ call.pc \in {"request", "streaming"}

\* C22: at most one drain loop is running, however the requests
\* interleave; a request made while one runs starts no second loop.
C22_SingleDrainLoop ==
    Cardinality({c \in CallIds : DrainLoopRunning(calls[c])}) <= 1

\* C23: tasks start in the order they were requested, each only after
\* the transfer of every task requested before it has settled: while a
\* task of a later request is in transfer, every earlier request is over.
C23_FifoOrder ==
    \A c, d \in CallIds :
        (c < d /\ Transferring(calls[d])) => CallOver(calls[c])

\* C24: provided every download settles, every requested task is taken
\* up: a downloadMany call that is over has started each of its keys.
C24_QueueLiveness ==
    \A c \in CallIds :
        (calls[c].kind = "many" /\ CallOver(calls[c])) =>
            calls[c].idx = Len(calls[c].keys)

\* C28: when overlapping downloadModel calls for distinct keys have all
\* succeeded, the registry holds an entry for each of their keys.
C28_NoLostRegistryUpdate ==
    (/\ \A c \in CallIds : calls[c].kind = "model" /\ calls[c].pc = "resolved"
     /\ \A c, d \in CallIds : c # d => calls[c].keys # calls[d].keys)
    => \A c \in CallIds : registry[calls[c].keys[1]] # NoEntry

\* C30: pollJobUntilFinal does not resolve with final 'success' for a
\* terminal snapshot whose normalized status is 'canceled'.
C30_CanceledIsNotSuccess ==
    (pollPc = "done" /\ pollResult.final = "success") =>
        NormalizedStatus(pollResult.payload) # "canceled"

----------------------------------------------------------------------------
(* Properties of the api client, checked under SpecClient *)

\* C11: submitJob rejects when the backend answers with a non-success
\* status and when a success response has no result.task_id: when it
\* resolves, the backend accepted the job and the document returned
\* carries the task id.
C11_SubmitRequiresTaskId ==
    submitPc = "resolved" => (job # "none" /\ submitResult # "")

\* the Authorization header the claim expects for the client's token
ExpectedAuthorization ==
    IF token # "" THEN [scheme |-> "Bearer", credentials |-> token] ELSE NoHeader

\* C13 as stated: every request the client sends carries
\* 'Authorization: Bearer <token>' when the token is not empty, and no
\* Authorization header when it is.
C13_EveryRequestAuthorized ==
    \A r \in requests : r.authorization = ExpectedAuthorization

\* C13 amended: every submitJob, getJobStatus and cancelJob request of
\* the api client, and every request of submitAndPoll, carries
\* 'Authorization: Bearer <token>' when the token is not empty and no
\* Authorization header when it is; a ping request never carries one.
C13_JobRequestsAuthorized ==
    \A r \in requests :
        /\ r.op \in {"submit", "status", "cancel"} => r.authorization = ExpectedAuthorization
        /\ r.op = "ping" => r.authorization = NoHeader

\* C13 witness: a client with a token has sent a request of each kind.
C13_Witness ==
    /\ token = "jwt-token"
    /\ \A op \in {"ping", "submit", "status", "cancel"} : RequestCount(op) >= 1
    /\ RequestCount("status") >= 2

CanceledSnapshot == JobSnapshot("canceled")

\* C19: cancelJob sends exactly one cancel request; its steps leave the
\* polling call untouched, so every wait of the loop lasts the interval
\* in force; and the first status response after the backend canceled the
\* job ends the loop with that payload, after which the call makes no
\* further poll.
C19_CancelAndPolling ==
    /\ [](/\ RequestCount("cancel") = (IF cancelPc = "idle" THEN 0 ELSE 1)
          /\ \A i \in 1..Len(waits) :
                waits[i] = IF i = 1 THEN intervalMs
                           ELSE IF ValidHint(hints[i - 1]) THEN hints[i - 1].v
                           ELSE waits[i - 1]
          /\ lastSnapshot = CanceledSnapshot =>
                /\ pollPc = "done"
                /\ pollResult.final \in {"success", "failure"}
                /\ pollResult.payload = CanceledSnapshot
                /\ terminalSeen = 1)
    /\ [][/\ cancelPc' # cancelPc => UNCHANGED pollVars
          /\ (job = "canceled" /\ Len(hints') > Len(hints)) =>
                (lastSnapshot' = CanceledSnapshot /\ pollPc' = "done")
          /\ lastSnapshot = CanceledSnapshot => UNCHANGED pollVars]_vars

\* the cancel requests made so far
CancelRequests == {r \in requests : r.op = "cancel"}

\* C25: no step of pollJobUntilFinal or of the loop of submitAndPoll
\* sends a cancel request or changes the state of the backend job; when
\* the call has ended with 'timeout' and cancelJob was never called, no
\* cancel request was made at all.
C25_TimeoutDoesNotCancel ==
    /\ []((/\ \/ pollResult = TimeoutResult
               \/ sapResult = "Timeout waiting for job result"
            /\ cancelPc = "idle") => CancelRequests = {})
    /\ [][(pollVars' # pollVars \/
              (sapPc \in {"wait", "status"} /\ preloadVars' # preloadVars)) =>
                 (CancelRequests' = CancelRequests /\ job' = job)]_vars

\* C25 witness: the loop ended with 'timeout' after its status requests
\* while the job is still running and no cancel request was made.
C25_Witness ==
    /\ pollPc = "done"
    /\ pollResult = TimeoutResult
    /\ RequestCount("status") = maxAttempts
    /\ job = "running"
    /\ CancelRequests = {}

\* C19 witness: cancelJob was called while the loop waited for its third
\* poll, and that poll saw the canceled job.
C19_Witness ==
    /\ cancelAt = "delay"
    /\ cancelPc = "resolved"
    /\ cancelResult = CanceledSnapshot
    /\ Len(waits) = 3
    /\ statusFetches = 3
    /\ lastSnapshot = CanceledSnapshot
    /\ pollPc = "done"

----------------------------------------------------------------------------
(* Properties of compareVersions, checked under SpecVersions *)

\* component i of a list padded with zeros
Padded(parts, i) == IF i <= Len(parts) THEN parts[i] ELSE 0

\* the sign of the lexicographic comparison of two lists of integers,
\* the shorter one padded with zeros
LexSign(pa, pb) ==
    LET n == IF Len(pa) > Len(pb) THEN Len(pa) ELSE Len(pb)
        differ == {i \in 1..n : Padded(pa, i) # Padded(pb, i)}
    IN  IF differ = {} THEN 0
        ELSE LET first == CHOOSE i \in differ : \A j \in differ : i <= j
             IN  IF Padded(pa, first) > Padded(pb, first) THEN 1 ELSE -1

\* C14: compareVersions(a, b) is the sign of the lexicographic
\* comparison of the numeric components of a and b, the shorter list
\* padded with zeros; so '1.10.0' > '1.9.9', '2' = '2.0.0',
\* '1.2' < '1.2.1', and compareVersions(a, b) = -compareVersions(b, a).
C14_CompareVersions ==
    cmpPc = "done" =>
        /\ cmpAB = LexSign(partsA, partsB)
        /\ cmpAB = -cmpBA
        /\ (partsA = <<1, 10, 0>> /\ partsB = <<1, 9, 9>>) => cmpAB > 0
        /\ (partsA = <<2>> /\ partsB = <<2, 0, 0>>) => cmpAB = 0
        /\ (partsA = <<1, 2>> /\ partsB = <<1, 2, 1>>) => cmpAB < 0

\* C14 witness: '1.2' was compared with '1.2.1'.
C14_Witness ==
    /\ cmpPc = "done"
    /\ verA = <<"1", ".", "2">>
    /\ verB = <<"1", ".", "2", ".", "1">>
    /\ cmpAB = -1
    /\ cmpBA = 1

----------------------------------------------------------------------------
(* Properties of checkModelUpdates, checked under SpecCheck *)

\* whether the registry file holds an entry for key k
RegistryHas(k) == registryFile.shape = "document" /\ registryFile.models[k].present

\* the updates of the result, as a set
UpdateSet == {checkResult.updates[i] : i \in 1..Len(checkResult.updates)}

\* the required models of the local manifest without a registry entry
MissingRequired ==
    {k \in ModelKeys : /\ localManifest[k].present
                       /\ localManifest[k].required
                       /\ ~RegistryHas(k)}

\* C15: with no remote manifest configured, the updates returned are one
\* entry with reason 'missing' and the manifest version as target for
\* each required manifest model without a registry entry, and nothing
\* else; updatesAvailable tells whether there is any.
C15_MissingDetection ==
    (~remoteUrl /\ checkPc = "resolved") =>
        /\ Len(checkResult.updates) = Cardinality(MissingRequired)
        /\ UpdateSet = {[key |-> k, reason |-> "missing", currentVersion |-> <<>>,
                         targetVersion |-> localManifest[k].version] :
                            k \in MissingRequired}
        /\ checkResult.updatesAvailable = (MissingRequired # {})

\* C15 witness: m1 is required and not in the registry, m2 is optional
\* and not in the registry either: one update, for m1.
C15_Witness ==
    /\ ~remoteUrl
    /\ checkPc = "resolved"
    /\ localManifest["m1"] = [present |-> TRUE, required |-> TRUE,
                              version |-> VersionText(<<1, 9, 9>>)]
    /\ localManifest["m2"].present /\ ~localManifest["m2"].required
    /\ registryFile.shape = "document"
    /\ ~RegistryHas("m1") /\ ~RegistryHas("m2")
    /\ Len(checkResult.updates) = 1
    /\ checkResult.updates[1].key = "m1"

\* C16: an update with reason 'new-version' is returned for a key exactly
\* when the remote manifest was the evaluated model set, the key has a
\* registry entry, the remote entry and the registry entry both carry a
\* version and the remote one compares greater; it carries the registry
\* version as current and the remote version as target.
C16_NewVersionDetection ==
    checkPc = "resolved" =>
        \A k \in ModelKeys :
            LET remote == remoteServer.models[k]
                local  == registryFile.models[k]
                newer  == /\ usedManifest = "remote"
                          /\ remote.present
                          /\ RegistryHas(k)
                          /\ remote.version # <<>>
                          /\ local.version # <<>>
                          /\ CompareVersions(remote.version, local.version) > 0
            IN  /\ (\E u \in UpdateSet : u.key = k /\ u.reason = "new-version") <=> newer
                /\ \A u \in UpdateSet :
                      (u.key = k /\ u.reason = "new-version") =>
                         /\ u.currentVersion = local.version
                         /\ u.targetVersion = remote.version

\* whether the fetch of the remote manifest has come to its end
FetchOver == checkPc \notin {"call", "fetching"}

\* C17: when a remote URL is configured and its fetch fails (connection
\* error, status other than 200, invalid JSON), checkModelUpdates rejects
\* with that failure, returns no result and never evaluates the local
\* manifest; a body that breaks off gives no result and no evaluation of
\* the local manifest either.
C17_RemoteFetchFailureIsFatal ==
    /\ (remoteUrl /\ remoteServer.answer \in FetchFailures /\ FetchOver) =>
          /\ checkPc = "rejected"
          /\ checkError = "fetch"
    /\ (remoteUrl /\ remoteServer.answer \in FetchFailures \cup {"aborted"}) =>
          /\ checkPc # "resolved"
          /\ checkResult = NoCheckResult
          /\ usedManifest = "none"

\* C17 witness: the remote URL answered a redirect and then an error
\* status, while the local manifest has a required model to report.
C17_Witness ==
    /\ remoteUrl
    /\ remoteServer.answer = "http-error"
    /\ hops = 1
    /\ MissingRequired # {}
    /\ checkPc = "rejected"

\* C26: the request of a download comes to an end, also when the server
\* keeps answering with redirects.
C26_BoundedRedirects == (dlPc = "request") ~> (dlPc # "request")

\* C18: when models.json is missing or malformed, readRegistry yields the
\* empty registry and checkModelUpdates does not fail on it.
C18_RegistryRecovery ==
    (registryFile.shape # "document" /\ checkPc # "call") =>
        /\ checkRegistry = EmptyRegistry
        /\ checkError # "TypeError"

----------------------------------------------------------------------------
(* Properties of updateModels, checked under SpecUpdate *)

\* C29: the checkModelUpdates that follows a successful updateModels, with
\* the same local manifest, remote manifest and models directory, reports
\* no update.
C29_UpdateConvergence == updPc = "rechecked" => ~recheck.updatesAvailable

====
